---- MODULE Spec2Model ----
(***************************************************************************)
(* python_magnetapi/flow_params.py: compute(), fit() and stats().          *)
(*                                                                         *)
(* compute() walks the sites of one magnet.  For every site it downloads   *)
(* the record files into a temporary directory, corrects Imax from the     *)
(* plateaus of the files, runs three chained fits and one statistic and    *)
(* writes one JSON artifact.                                               *)
(*                                                                         *)
(* Scope of the model: one magnet whose part type is not "bitter", records *)
(* of housing M9 (so the channels Rpm, Flow, Pin, Pout are the columns     *)
(* Rpm1, Flow1, HP1, BP).  The record files are taken from a small catalog *)
(* of measurement files.  scipy's curve_fit and the remote API are         *)
(* collaborators: each of their calls either raises or returns a value of  *)
(* a small set.                                                            *)
(***************************************************************************)
EXTENDS Integers, Sequences, FiniteSets, TLC

(***************************************************************************)
(* Bounds of the model.                                                    *)
(***************************************************************************)
MaxSites == 2
MaxRecords == 2

(***************************************************************************)
(* Numbers.  A cell of a measurement file is a finite number, NaN or an    *)
(* infinity.  Computed quantities (means, thresholds) are exact rationals. *)
(***************************************************************************)
Num(n) == [k |-> "num", v |-> n]
NaN == [k |-> "nan", v |-> 0]
PInf == [k |-> "inf", v |-> 1]
NInf == [k |-> "inf", v |-> -1]

RECURSIVE GCD(_, _)
GCD(a, b) == IF b = 0 THEN a ELSE GCD(b, a % b)

Rat(n, d) == LET g == GCD(IF n < 0 THEN -n ELSE n, d)
             IN  [num |-> n \div g, den |-> d \div g]
R(n) == [num |-> n, den |-> 1]

\* pandas comparisons of a cell with a number q: NaN compares False.
cell_le(c, q) == \/ c.k = "num" /\ c.v * q.den <= q.num
                 \/ c = NInf
cell_ge(c, q) == \/ c.k = "num" /\ c.v * q.den >= q.num
                 \/ c = PInf
cell_gt(c, q) == \/ c.k = "num" /\ c.v * q.den > q.num
                 \/ c = PInf

RECURSIVE SeqSum(_)
SeqSum(s) == IF s = <<>> THEN 0 ELSE Head(s) + SeqSum(Tail(s))

RECURSIVE SeqMin(_)
SeqMin(s) == IF Len(s) = 1 THEN Head(s)
             ELSE LET m == SeqMin(Tail(s)) IN IF Head(s) < m THEN Head(s) ELSE m

RECURSIVE SeqMax(_)
SeqMax(s) == IF Len(s) = 1 THEN Head(s)
             ELSE LET m == SeqMax(Tail(s)) IN IF Head(s) > m THEN Head(s) ELSE m

RECURSIVE Flatten(_)
Flatten(ss) == IF ss = <<>> THEN <<>> ELSE Head(ss) \o Flatten(Tail(ss))

Column(rows, key) == [i \in 1..Len(rows) |-> rows[i][key]]
IsNum(c) == c.k = "num"
IsNaN(c) == c.k = "nan"
Values(cells) == [i \in 1..Len(cells) |-> cells[i].v]

(***************************************************************************)
(* Program constants.                                                      *)
(***************************************************************************)
StdFloor == 10             \* result[Ikey].std() >= 10
NParams == 2               \* every model function has two free parameters
BreakIndex == 40           \* "if i >= 40: break" in the download loop

RpmFactor == Rat(999, 1000)      \* 1 - 0.1 / 100.0
FieldMin == Rat(1, 10)           \* Field > 0.1

\* default value (the Fmax literal 61.71612272405876 is kept to five decimals:
\* it is only ever copied and compared with itself)
DefaultFlowParams ==
    [Vp0   |-> [value |-> R(1000), unit |-> "rpm"],
     Vpmax |-> [value |-> R(2840), unit |-> "rpm"],
     F0    |-> [value |-> R(0), unit |-> "l/s"],
     Fmax  |-> [value |-> Rat(6171612, 100000), unit |-> "l/s"],
     Pmax  |-> [value |-> R(22), unit |-> "bar"],
     Pmin  |-> [value |-> R(4), unit |-> "bar"],
     Pout  |-> [value |-> R(4), unit |-> "bar"],
     Imax  |-> [value |-> R(28000), unit |-> "A"]]

\* fit_data["M9"] of a magnet that is not of type bitter
fit_data == [Rpm |-> "Rpm1", Flow |-> "Flow1", Pin |-> "HP1", Pout |-> "BP"]

\* a local variable that holds no value yet
Unset == [num |-> 0, den |-> 0]

(***************************************************************************)
(* The measurement files the download collaborator can deliver.  A file is *)
(* its header (cols) and its rows; a row maps a column name to a cell.     *)
(***************************************************************************)
Row(ikey, i, rpm, flow, hp, bp, field) ==
    (ikey :> i) @@ [Rpm1 |-> rpm, Flow1 |-> flow, HP1 |-> hp, BP |-> bp, Field |-> field]

Header(ikey) == <<ikey, "Rpm1", "Flow1", "HP1", "BP", "Field">>

Catalog ==
    [M9_a |->  \* ramp to a plateau at 2000 rpm reached between 20000 and 20030 A
        [cols |-> Header("Icoil1"),
         rows |-> << Row("Icoil1", Num(10000), Num(1500), Num(30), Num(10), Num(4), Num(1)),
                     Row("Icoil1", Num(20000), Num(2000), Num(60), Num(20), Num(4), Num(1)),
                     Row("Icoil1", Num(20030), Num(2000), Num(61), Num(21), Num(4), Num(1)) >>],
     M9_b |->  \* plateau between 20005 and 20020 A
        [cols |-> Header("Icoil1"),
         rows |-> << Row("Icoil1", Num(10000), Num(1500), Num(30), Num(10), Num(4), Num(1)),
                     Row("Icoil1", Num(20005), Num(2000), Num(60), Num(20), Num(4), Num(1)),
                     Row("Icoil1", Num(20020), Num(2000), Num(61), Num(21), Num(4), Num(1)) >>],
     M9_c |->  \* nearly flat plateau, holes and infinities in the channels
        [cols |-> Header("Icoil1"),
         rows |-> << Row("Icoil1", Num(20000), Num(2000), PInf, Num(20), Num(4), Num(1)),
                     Row("Icoil1", Num(20010), Num(2000), Num(60), NaN, Num(4), Num(1)),
                     Row("Icoil1", NInf, Num(1000), Num(50), Num(10), Num(4), Num(1)) >>],
     M9_d |->  \* second coil column, no field, outlet pressure never recorded
        [cols |-> Header("Icoil2"),
         rows |-> << Row("Icoil2", Num(10000), Num(1500), Num(30), Num(10), NaN, Num(0)),
                     Row("Icoil2", Num(20000), Num(2000), Num(60), Num(20), NaN, Num(0)) >>],
     M9_e |->  \* second coil column, one sample at full speed
        [cols |-> Header("Icoil2"),
         rows |-> << Row("Icoil2", Num(10000), Num(1500), Num(30), Num(10), Num(4), Num(1)),
                     Row("Icoil2", Num(20000), Num(2000), Num(60), Num(20), Num(4), Num(1)) >>]]

FileNames == DOMAIN Catalog

\* pd.read_csv(file, sep=r"\s+", engine="python", skiprows=1)
read_csv(file) == Catalog[file]

\* the column names re.match("(Icoil\d+)", key) accepts
IcoilColumns == {"Icoil1", "Icoil2"}

(***************************************************************************)
(* pandas Series reductions (NaN is skipped).                              *)
(***************************************************************************)
NotNaN(cells) == SelectSeq(cells, LAMBDA c : ~IsNaN(c))

\* Series.max()
series_max(cells) ==
    LET xs == NotNaN(cells)
        nums == SelectSeq(xs, IsNum)
    IN  IF xs = <<>> THEN NaN
        ELSE IF \E i \in 1..Len(xs) : xs[i] = PInf THEN PInf
        ELSE IF nums = <<>> THEN NInf
        ELSE Num(SeqMax(Values(nums)))

\* Series.min()
series_min(cells) ==
    LET xs == NotNaN(cells)
        nums == SelectSeq(xs, IsNum)
    IN  IF xs = <<>> THEN NaN
        ELSE IF \E i \in 1..Len(xs) : xs[i] = NInf THEN NInf
        ELSE IF nums = <<>> THEN PInf
        ELSE Num(SeqMin(Values(nums)))

SqDev(xs, m) == [i \in 1..Len(xs) |-> (xs[i] - m) * (xs[i] - m)]
Dev(xs, m) == [i \in 1..Len(xs) |-> xs[i] - m]

\* the same test with the population estimator (ddof=0)
std_ge_population(cells, floor) ==
    LET xs == NotNaN(cells)
        n == Len(xs)
        vs == Values(xs)
        m == SeqMin(vs)
    IN  /\ n >= 1
        /\ \A i \in 1..n : IsNum(xs[i])
        /\ n * SeqSum(SqDev(vs, m)) - SeqSum(Dev(vs, m)) * SeqSum(Dev(vs, m))
              >= floor * floor * n * n

\* Series.std() >= floor, with the unbiased estimator pandas uses (ddof=1):
\* the std of fewer than two values, or of values holding an infinity, is NaN.
std_ge(cells, floor) ==
    LET xs == NotNaN(cells)
        n == Len(xs)
        vs == Values(xs)
        m == SeqMin(vs)
    IN  /\ n >= 2
        /\ \A i \in 1..n : IsNum(xs[i])
        /\ n * SeqSum(SqDev(vs, m)) - SeqSum(Dev(vs, m)) * SeqSum(Dev(vs, m))
              >= floor * floor * n * (n - 1)

(***************************************************************************)
(* Cleaning, as fit() and stats() do it before they hand the samples on.   *)
(* A merged sample is the pair <<cell of Ikey, cell of Okey>>.             *)
(***************************************************************************)
\* concat_files(files, keys=[Ikey, Okey])
concat_files(files_, Ikey_, Okey) ==
    Flatten([i \in 1..Len(files_) |->
        LET rows == read_csv(files_[i]).rows
        IN  [j \in 1..Len(rows) |-> <<rows[j][Ikey_], rows[j][Okey]>>]])

\* df.replace([np.inf, -np.inf], np.nan, inplace=True)
replace_inf(df) ==
    [i \in 1..Len(df) |-> [j \in 1..2 |-> IF df[i][j].k = "inf" THEN NaN ELSE df[i][j]]]

\* df.dropna(inplace=True)
dropna(df) == SelectSeq(df, LAMBDA r : ~IsNaN(r[1]) /\ ~IsNaN(r[2]))

\* df.query(f"{Ikey} <= {threshold}")
query_le(df, threshold) == SelectSeq(df, LAMBDA r : cell_le(r[1], threshold))

\* the query without the two cleaning statements before it
Cleaner_keeps_inf(df, threshold) == query_le(dropna(df), threshold)

Cleaner(df, threshold) == query_le(dropna(replace_inf(df)), threshold)

(***************************************************************************)
(* Collaborators.                                                          *)
(***************************************************************************)
\* what optimize.curve_fit returns when it converges, <<params[0], params[1]>>:
\* a pair that differs from every default
FitResults == { <<R(2900), R(950)>> }

\* optimize.curve_fit(fit_function, x_data, y_data): <<>> stands for a raise.
\* With fewer samples than parameters it always raises; otherwise it can
\* converge or give up.
curve_fit(result) ==
    IF Len(result) < NParams THEN { <<>> } ELSE FitResults \cup { <<>> }

\* what the mean of a non-empty describe() column can be
PoutValues == { R(3), R(5) }

\* result.describe(include="all")[Okey].mean(): the mean of the statistics
\* count, mean, std, min, 25%, 50%, 75%, max without the NaN ones.  Over zero
\* samples count is 0 and every other statistic is NaN, so the mean is 0.
describe_mean(result) ==
    IF result = <<>> THEN { R(0) } ELSE PoutValues

(***************************************************************************)
(* The model functions: closures over variables of compute().              *)
(***************************************************************************)
vpump_func(Imax_) ==
    [kind |-> "vpump", Imax |-> Imax_, vpmax |-> Unset, vp0 |-> Unset]

\* flow_func with the pump parameters bound to the defaults
flow_func_defaults(vpmax_, vp0_, Imax_) ==
    [kind |-> "flow", Imax |-> Imax_,
     vpmax |-> DefaultFlowParams.Vpmax.value, vp0 |-> DefaultFlowParams.Vp0.value]

flow_func(vpmax_, vp0_, Imax_) ==
    [kind |-> "flow", Imax |-> Imax_, vpmax |-> vpmax_, vp0 |-> vp0_]

pressure_func(vpmax_, vp0_, Imax_) ==
    [kind |-> "pressure", Imax |-> Imax_, vpmax |-> vpmax_, vp0 |-> vp0_]

(***************************************************************************)
(* Imax detection on one file.                                             *)
(***************************************************************************)
\* df.loc[:, (df != 0.0).any(axis=0)].columns of the reference file
nonzero_keys(file) ==
    LET f == read_csv(file)
    IN  SelectSeq(f.cols,
            LAMBDA c : \E j \in 1..Len(f.rows) : f.rows[j][c] # Num(0))

\* the Icoil columns among the keys
match_Icoil(keys) == SelectSeq(keys, LAMBDA c : c \in IcoilColumns)

\* _Rpmmax: df[fit_data[housing]["Rpm"]].max() of the reference file
Rpmmax(reference) == series_max(Column(read_csv(reference).rows, fit_data.Rpm))

\* _df.query(f'{Rpm} >= {threshold} & Field > 0.1'), threshold = _Rpmmax * (1 - 0.1 / 100.0)
plateau_query(file, rpmmax) ==
    LET threshold == Rat(rpmmax * RpmFactor.num, RpmFactor.den)
    IN  SelectSeq(read_csv(file).rows,
            LAMBDA r : cell_ge(r[fit_data.Rpm], threshold) /\ cell_gt(r.Field, FieldMin))

\* sum(new_Imax) / len(new_Imax)
mean(xs) == Rat(SeqSum(xs), Len(xs))

(***************************************************************************)
(* State of one call of compute().                                         *)
(***************************************************************************)
VARIABLES
    pc,             \* position in compute()
    err,            \* the exception that left compute(), "none" so far
    tempdir,        \* the temporary directory: "none", "exists", "removed"
    procdir,        \* the working directory of the process: "cwd" or "tempdir"
    nsites,         \* len(sites)
    sidx,           \* position of the loop "for site in sites" (1-based)
    nrecords,       \* len(records) of the current site
    files,          \* names of the files downloaded for the current site
    Ikey,           \* name of the current column
    fidx,           \* position of the loop "for file in files" (1-based)
    new_Imax,       \* plateau candidates of the current site
    dropped_files,  \* files without the Ikey column
    Imax,           \* fit threshold
    flow_params,    \* the parameter set
    vp0, vpmax,     \* pump parameters the flow and pressure models close over
    calls,          \* the calls of fit() and stats() made for the current site
    artifact        \* per site, the JSON documents written: <<>> or <<document>>

vars == <<pc, err, tempdir, procdir, nsites, sidx, nrecords, files, Ikey, fidx,
          new_Imax, dropped_files, Imax, flow_params, vp0, vpmax, calls, artifact>>

Init ==
    /\ pc = "start"
    /\ err = "none"
    /\ tempdir = "none"
    /\ procdir = "cwd"
    /\ nsites \in 0..MaxSites
    /\ sidx = 1
    /\ nrecords = 0
    /\ files = <<>>
    /\ Ikey = "tttt"
    /\ fidx = 1
    /\ new_Imax = <<>>
    /\ dropped_files = <<>>
    /\ Imax = DefaultFlowParams.Imax.value
    /\ flow_params = DefaultFlowParams
    /\ vp0 = Unset
    /\ vpmax = Unset
    /\ calls = <<>>
    /\ artifact = [s \in 1..MaxSites |-> <<>>]

\* TemporaryDirectory.__exit__ that leaves the directory in place
TemporaryDirectory_leak(t) == t

\* TemporaryDirectory.__exit__: the directory and its content are removed
TemporaryDirectory_exit(t) == "removed"

\* an exception leaves compute(): nothing catches it, the with block is left
Raise(e) ==
    /\ pc' = "raised"
    /\ err' = e
    /\ tempdir' = TemporaryDirectory_exit(tempdir)

Goto(p) ==
    /\ pc' = p
    /\ UNCHANGED <<err, tempdir>>

\* with tempfile.TemporaryDirectory() as tempdir: os.chdir(tempdir)
EnterTempdir ==
    /\ pc = "start"
    /\ pc' = "site"
    /\ tempdir' = "exists"
    /\ procdir' = "tempdir"
    /\ UNCHANGED <<err, nsites, sidx, nrecords, files, Ikey, fidx, new_Imax,
                   dropped_files, Imax, flow_params, vp0, vpmax, calls, artifact>>

\* the loop over the sites is exhausted: os.chdir(cwd), end of the with block
Leave ==
    /\ pc = "site"
    /\ sidx > nsites
    /\ pc' = "done"
    /\ procdir' = "cwd"
    /\ tempdir' = TemporaryDirectory_exit(tempdir)
    /\ UNCHANGED <<err, nsites, sidx, nrecords, files, Ikey, fidx, new_Imax,
                   dropped_files, Imax, flow_params, vp0, vpmax, calls, artifact>>

\* for site in sites: records = utils.get_history(...); files = []
SiteBegin ==
    /\ pc = "site"
    /\ sidx <= nsites
    /\ \E n \in 0..MaxRecords : nrecords' = n
    /\ files' = <<>>
    /\ calls' = <<>>
    /\ Goto("download")
    /\ UNCHANGED <<procdir, nsites, sidx, Ikey, fidx, new_Imax, dropped_files,
                   Imax, flow_params, vp0, vpmax, artifact>>

\* the download loop goes on: range(nrecords) is not exhausted and the index
\* of the last download did not reach the break
Downloading ==
    /\ pc = "download"
    /\ Len(files) < nrecords
    /\ Len(files) - 1 < BreakIndex

\* filename = utils.download(...); files.append(filename)
Download ==
    /\ Downloading
    /\ \E f \in FileNames : files' = Append(files, f)
    /\ Goto("download")
    /\ UNCHANGED <<procdir, nsites, sidx, nrecords, Ikey, fidx, new_Imax,
                   dropped_files, Imax, flow_params, vp0, vpmax, calls, artifact>>

\* utils.download(...) raises
DownloadFails ==
    /\ Downloading
    /\ Raise("download")
    /\ UNCHANGED <<procdir, nsites, sidx, nrecords, files, Ikey, fidx, new_Imax,
                   dropped_files, Imax, flow_params, vp0, vpmax, calls, artifact>>

\* "if files:" is false: on to the next site
NoFiles ==
    /\ pc = "download"
    /\ ~Downloading
    /\ files = <<>>
    /\ sidx' = sidx + 1
    /\ Goto("site")
    /\ UNCHANGED <<procdir, nsites, nrecords, files, Ikey, fidx, new_Imax,
                   dropped_files, Imax, flow_params, vp0, vpmax, calls, artifact>>

\* the keys of files[0], Ikey = Ikeys[0], dropped_files = [], new_Imax = []
SelectKeys ==
    /\ pc = "download"
    /\ ~Downloading
    /\ files # <<>>
    /\ LET Ikeys == match_Icoil(nonzero_keys(files[1]))
       IN  IF Ikeys = <<>>
           THEN /\ Raise("IndexError")
                /\ UNCHANGED <<Ikey, fidx, new_Imax, dropped_files>>
           ELSE /\ Goto("imax")
                /\ Ikey' = Ikeys[1]
                /\ fidx' = 1
                /\ new_Imax' = <<>>
                /\ dropped_files' = <<>>
    /\ UNCHANGED <<procdir, nsites, sidx, nrecords, files, Imax, flow_params,
                   vp0, vpmax, calls, artifact>>

\* one pass of "for file in files:" of the Imax detection
ImaxFile ==
    /\ pc = "imax"
    /\ fidx <= Len(files)
    /\ LET file == files[fidx]
           missing == \A i \in 1..Len(read_csv(file).cols) : read_csv(file).cols[i] # Ikey
           hasRpm == \E i \in 1..Len(nonzero_keys(files[1])) :
                          nonzero_keys(files[1])[i] = fit_data.Rpm
           rpmmax == Rpmmax(files[1])
       IN  /\ dropped_files' = IF missing THEN Append(dropped_files, file) ELSE dropped_files
           /\ IF ~hasRpm
              THEN Raise("KeyError") /\ UNCHANGED <<fidx, new_Imax>>
              ELSE IF ~IsNum(rpmmax)
              THEN Raise("query") /\ UNCHANGED <<fidx, new_Imax>>
              ELSE LET result == plateau_query(file, rpmmax.v)
                   IN  IF result # <<>> /\ missing
                       THEN Raise("KeyError") /\ UNCHANGED <<fidx, new_Imax>>
                       ELSE /\ Goto("imax")
                            /\ fidx' = fidx + 1
                            /\ new_Imax' =
                                 IF result # <<>> /\ std_ge(Column(result, Ikey), StdFloor)
                                 THEN Append(new_Imax, series_min(Column(result, Ikey)).v)
                                 ELSE new_Imax
    /\ UNCHANGED <<procdir, nsites, sidx, nrecords, files, Ikey, Imax, flow_params,
                   vp0, vpmax, calls, artifact>>

\* if new_Imax: new_Imax_mean = ...; if Imax != new_Imax_mean: ...
ImaxUpdate ==
    /\ pc = "imax"
    /\ fidx > Len(files)
    /\ IF new_Imax # <<>> /\ Imax # mean(new_Imax)
       THEN /\ flow_params' = [flow_params EXCEPT !.Imax.value = mean(new_Imax)]
            /\ Imax' = mean(new_Imax)
       ELSE UNCHANGED <<flow_params, Imax>>
    /\ Goto("drop")
    /\ UNCHANGED <<procdir, nsites, sidx, nrecords, files, Ikey, fidx, new_Imax,
                   dropped_files, vp0, vpmax, calls, artifact>>

\* for file in dropped_files: files.drop(file) -- a list has no method drop
DropFiles ==
    /\ pc = "drop"
    /\ IF dropped_files # <<>>
       THEN Raise("AttributeError")
       ELSE Goto("fitRpm")
    /\ UNCHANGED <<procdir, nsites, sidx, nrecords, files, Ikey, fidx, new_Imax,
                   dropped_files, Imax, flow_params, vp0, vpmax, calls, artifact>>

\* the body of fit(Ikey, Okey, Ostring, threshold, fit_function, files, ...)
\* with curve_fit's outcome out: the record of the call
fit(Okey, Ostring, threshold, fit_function, out) ==
    [stage |-> Ostring, Okey |-> Okey, threshold |-> threshold,
     model |-> fit_function,
     result |-> Cleaner(concat_files(files, Ikey, Okey), threshold),
     params |-> out]

FitOutcomes(Okey, threshold) ==
    curve_fit(Cleaner(concat_files(files, Ikey, Okey), threshold))

\* params = fit(Ikey, Rpm, "Rpm", Imax, vpump_func, ...); Vp0, Vpmax
FitRpm ==
    /\ pc = "fitRpm"
    /\ \E out \in FitOutcomes(fit_data.Rpm, Imax) :
         /\ calls' = Append(calls, fit(fit_data.Rpm, "Rpm", Imax, vpump_func(Imax), out))
         /\ IF out = <<>>
            THEN Raise("curve_fit") /\ UNCHANGED <<flow_params, vp0, vpmax>>
            ELSE /\ Goto("fitFlow")
                 /\ flow_params' = [flow_params EXCEPT !.Vp0.value = out[2],
                                                       !.Vpmax.value = out[1]]
                 /\ vp0' = out[2]
                 /\ vpmax' = out[1]
    /\ UNCHANGED <<procdir, nsites, sidx, nrecords, files, Ikey, fidx, new_Imax,
                   dropped_files, Imax, artifact>>

\* params = fit(Ikey, Flow, "Flow", Imax, flow_func, ...); F0, Fmax
FitFlow ==
    /\ pc = "fitFlow"
    /\ \E out \in FitOutcomes(fit_data.Flow, Imax) :
         /\ calls' = Append(calls,
                fit(fit_data.Flow, "Flow", Imax, flow_func(vpmax, vp0, Imax), out))
         /\ IF out = <<>>
            THEN Raise("curve_fit") /\ UNCHANGED flow_params
            ELSE /\ Goto("fitPin")
                 /\ flow_params' = [flow_params EXCEPT !.F0.value = out[1],
                                                       !.Fmax.value = out[2]]
    /\ UNCHANGED <<procdir, nsites, sidx, nrecords, files, Ikey, fidx, new_Imax,
                   dropped_files, Imax, vp0, vpmax, artifact>>

\* params = fit(Ikey, Pin, "Pin", Imax, pressure_func, ...); Pmin, Pmax
FitPin ==
    /\ pc = "fitPin"
    /\ \E out \in FitOutcomes(fit_data.Pin, Imax) :
         /\ calls' = Append(calls,
                fit(fit_data.Pin, "Pin", Imax, pressure_func(vpmax, vp0, Imax), out))
         /\ IF out = <<>>
            THEN Raise("curve_fit") /\ UNCHANGED flow_params
            ELSE /\ Goto("stats")
                 /\ flow_params' = [flow_params EXCEPT !.Pmin.value = out[1],
                                                       !.Pmax.value = out[2]]
    /\ UNCHANGED <<procdir, nsites, sidx, nrecords, files, Ikey, fidx, new_Imax,
                   dropped_files, Imax, vp0, vpmax, artifact>>

\* the body of stats(Ikey, Okey, Ostring, threshold, files): the record of the call
stats(Okey, Ostring, threshold, out) ==
    [stage |-> Ostring, Okey |-> Okey, threshold |-> threshold,
     model |-> [kind |-> "describe", Imax |-> Unset, vpmax |-> Unset, vp0 |-> Unset],
     result |-> Cleaner(concat_files(files, Ikey, Okey), threshold),
     params |-> <<out>>]

\* params = stats(Ikey, Pout, "Pout", Imax, files); Pout = params[Pout].mean()
StatsPout ==
    /\ pc = "stats"
    /\ \E out \in describe_mean(Cleaner(concat_files(files, Ikey, fit_data.Pout), Imax)) :
         /\ calls' = Append(calls, stats(fit_data.Pout, "Pout", Imax, out))
         /\ flow_params' = [flow_params EXCEPT !.Pout.value = out]
    /\ Goto("write")
    /\ UNCHANGED <<procdir, nsites, sidx, nrecords, files, Ikey, fidx, new_Imax,
                   dropped_files, Imax, vp0, vpmax, artifact>>

\* save flow_params: f.write(json.dumps(flow_params, indent=4)); next site
WriteArtifact ==
    /\ pc = "write"
    /\ artifact' = [artifact EXCEPT ![sidx] = <<flow_params>>]
    /\ sidx' = sidx + 1
    /\ Goto("site")
    /\ UNCHANGED <<procdir, nsites, nrecords, files, Ikey, fidx, new_Imax,
                   dropped_files, Imax, flow_params, vp0, vpmax, calls>>

Next ==
    \/ EnterTempdir
    \/ Leave
    \/ SiteBegin
    \/ Download
    \/ DownloadFails
    \/ NoFiles
    \/ SelectKeys
    \/ ImaxFile
    \/ ImaxUpdate
    \/ DropFiles
    \/ FitRpm
    \/ FitFlow
    \/ FitPin
    \/ StatsPout
    \/ WriteArtifact

Spec == Init /\ [][Next]_vars

(***************************************************************************)
(* Properties.                                                             *)
(***************************************************************************)
Terminated == pc \in {"done", "raised"}
FitStages == {"fitRpm", "fitFlow", "fitPin", "stats"}
StageOrder == <<"Rpm", "Flow", "Pin", "Pout">>
DefaultImax == DefaultFlowParams.Imax.value
LacksIkey(file) == \A i \in 1..Len(Catalog[file].cols) : Catalog[file].cols[i] # Ikey

\* The plateau candidates of the current site, stated from the description of
\* the estimator: the reference speed is the largest speed of the first file.
PlateauRows(file) ==
    LET ref == Catalog[files[1]].rows
        rpm_max == CHOOSE m \in {ref[j].Rpm1.v : j \in 1..Len(ref)} :
                       \A j \in 1..Len(ref) : ref[j].Rpm1.v <= m
        rows == Catalog[file].rows
    IN  {j \in 1..Len(rows) : /\ rows[j].Rpm1.k = "num"
                               /\ 1000 * rows[j].Rpm1.v >= 999 * rpm_max
                               /\ rows[j].Field.k = "num"
                               /\ 10 * rows[j].Field.v > 1}

PlateauCurrents(file) == {Catalog[file].rows[j][Ikey].v : j \in PlateauRows(file)}

\* sample variance >= 100, as the mean squared distance of the pairs
Dispersed(file) ==
    LET P == PlateauRows(file)
        rows == Catalog[file].rows
        n == Cardinality(P)
        sq(a, b) == (rows[a][Ikey].v - rows[b][Ikey].v) * (rows[a][Ikey].v - rows[b][Ikey].v)
        RECURSIVE PairSum(_)
        PairSum(S) == IF S = {} THEN 0
                      ELSE LET p == CHOOSE q \in S : TRUE
                           IN  sq(p[1], p[2]) + PairSum(S \ {p})
    IN  /\ n >= 2
        /\ \A j \in P : rows[j][Ikey].k = "num"
        /\ PairSum({p \in P \X P : p[1] < p[2]}) >= 100 * n * (n - 1)

Contributes(file) == PlateauRows(file) # {} /\ Dispersed(file)

CandidateOf(file) ==
    CHOOSE m \in PlateauCurrents(file) : \A x \in PlateauCurrents(file) : m <= x

RECURSIVE CandidateSum(_)
CandidateSum(n) ==
    IF n = 0 THEN 0
    ELSE CandidateSum(n - 1) + (IF Contributes(files[n]) THEN CandidateOf(files[n]) ELSE 0)

CandidateCount == Cardinality({i \in 1..Len(files) : Contributes(files[i])})

\* C1: when the Imax detection loop of a site has ended, Imax and
\* flow_params["Imax"] become the arithmetic mean of the plateau candidates,
\* one per file whose selection is non-empty and has a current std >= 10;
\* without a candidate both stay as they were.
C1_ImaxIsMeanOfCandidates ==
    [][(pc = "imax" /\ pc' = "drop") =>
          IF CandidateCount = 0
          THEN Imax' = Imax /\ flow_params' = flow_params
          ELSE /\ Imax'.num * CandidateCount = CandidateSum(Len(files)) * Imax'.den
               /\ flow_params'.Imax.value = Imax'
               /\ \A key \in DOMAIN flow_params \ {"Imax"} :
                      flow_params'[key] = flow_params[key]]_vars

\* two files gave two different candidates and Imax is their mean
C1_Witness ==
    /\ pc = "drop"
    /\ Len(new_Imax) = 2
    /\ new_Imax[1] # new_Imax[2]
    /\ 2 * Imax.num = (new_Imax[1] + new_Imax[2]) * Imax.den
    /\ flow_params.Imax.value = Imax

\* C2 (as claimed): a failing fit aborts only its site; the later sites are
\* still processed, so compute never ends on a fit error with sites left.
C2_LaterSitesStillProcessed ==
    (pc = "raised" /\ err = "curve_fit") => sidx >= nsites

\* C3 (as claimed): when a fit stage fails, the artifact of the site is still
\* written, with what was fitted before and the untouched values for the rest.
C3_PartialArtifactWritten ==
    (pc = "raised" /\ err = "curve_fit") => artifact[sidx] = <<flow_params>>

\* C4 (as claimed): a file without the Ikey column is dropped without a fatal
\* error and is not among the files the fits and stats read.
C4_MissingColumnFileDropped ==
    (\E i \in 1..Len(files) : pc \notin {"start", "site", "download"} /\ LacksIkey(files[i]))
        => /\ ~(pc = "raised" /\ err \in {"KeyError", "AttributeError"})
           /\ pc \notin FitStages \cup {"write"}

Stages(cs) == [k \in 1..Len(cs) |-> cs[k].stage]

\* C5 (amended): the stages of a site run at most once each and only in the
\* order Imax detection, pump-speed fit, flow fit, pressure fit,
\* output-pressure statistic, artifact write; all of them have run once when
\* the artifact of the site is written.  The flow and pressure models hold the
\* Vpmax/Vp0 returned by the pump-speed fit of the same site, and every stage
\* receives as threshold the Imax stored in flow_params["Imax"].
C5_StagesInFixedOrder ==
    /\ Stages(calls) = SubSeq(StageOrder, 1, Len(calls))
    /\ \A k \in 1..Len(calls) :
          /\ calls[k].threshold = flow_params.Imax.value
          /\ k \in {2, 3} => /\ calls[k].model.vpmax = calls[1].params[1]
                             /\ calls[k].model.vp0 = calls[1].params[2]
                             /\ calls[k].model.Imax = calls[k].threshold
    /\ pc \in {"download", "imax", "drop", "fitRpm"} => calls = <<>>
    /\ pc = "fitFlow" => Len(calls) = 1
    /\ pc = "fitPin" => Len(calls) = 2
    /\ pc = "stats" => Len(calls) = 3
    /\ pc = "write" => Len(calls) = 4 /\ artifact[sidx] = <<>>
    /\ \A s \in 1..MaxSites : artifact[s] # <<>> => s < sidx
    /\ (pc = "site" /\ files # <<>>) => /\ Len(calls) = 4
                                        /\ artifact[sidx - 1] = <<flow_params>>

\* the second site has run all its stages with fitted pump parameters
C5_Witness ==
    /\ pc = "site"
    /\ sidx = 3
    /\ artifact[1] # <<>>
    /\ artifact[2] # <<>>
    /\ Len(calls) = 4
    /\ calls[2].model.vpmax # DefaultFlowParams.Vpmax.value
    /\ calls[3].model.vpmax = flow_params.Vpmax.value

\* C5 (as claimed): for every site with at least one file each stage runs
\* exactly once, also when the solver gives up on one of the fits.
C5_EverySiteRunsAllStages ==
    (pc \in {"site", "done", "raised"} /\ files # <<>> /\ err \in {"none", "curve_fit"})
        => /\ Stages(calls) = StageOrder
           /\ artifact[IF pc = "raised" THEN sidx ELSE sidx - 1] # <<>>

\* C6 (as claimed): a site that found no plateau candidate of its own fits with
\* the default Imax as threshold and writes the default Imax in its artifact.
C6_SiteStartsFromDefaults ==
    /\ (pc \in FitStages \cup {"write"} /\ new_Imax = <<>>)
          => Imax = DefaultImax /\ flow_params.Imax.value = DefaultImax
    /\ (pc = "site" /\ files # <<>> /\ new_Imax = <<>>)
          => artifact[sidx - 1][1].Imax.value = DefaultImax

Finite(c) == c.k = "num"

\* C7: the samples fit and stats hand on after cleaning are exactly the
\* merged samples with a finite, present value in both columns and
\* Ikey <= threshold, in their order.
C7_CleanedSamples ==
    \A k \in 1..Len(calls) :
        LET c == calls[k]
            merged == concat_files(files, Ikey, c.Okey)
            keep == {j \in 1..Len(merged) :
                        /\ Finite(merged[j][1])
                        /\ Finite(merged[j][2])
                        /\ merged[j][1].v * c.threshold.den <= c.threshold.num}
        IN  /\ \A i \in 1..Len(c.result) :
                  /\ Finite(c.result[i][1])
                  /\ Finite(c.result[i][2])
                  /\ c.result[i][1].v * c.threshold.den <= c.threshold.num
            /\ Len(c.result) = Cardinality(keep)
            /\ \A i \in 1..Len(c.result) :
                  \E j \in keep : /\ c.result[i] = merged[j]
                                  /\ Cardinality({l \in keep : l < j}) = i - 1

\* a call whose merged samples held an infinity, a hole and a current above
\* the threshold, and kept some samples
C7_Witness ==
    \E k \in 1..Len(calls) :
        LET c == calls[k]
            merged == concat_files(files, Ikey, c.Okey)
        IN  /\ c.result # <<>>
            /\ \E j \in 1..Len(merged) : merged[j][1].k = "inf" \/ merged[j][2].k = "inf"
            /\ \E j \in 1..Len(merged) : merged[j][2].k = "nan"
            /\ \E j \in 1..Len(merged) :
                  /\ Finite(merged[j][1]) /\ Finite(merged[j][2])
                  /\ merged[j][1].v * c.threshold.den > c.threshold.num

StageOkey(p) ==
    IF p = "fitRpm" THEN fit_data.Rpm
    ELSE IF p = "fitFlow" THEN fit_data.Flow
    ELSE IF p = "fitPin" THEN fit_data.Pin
    ELSE fit_data.Pout

StageAfter(p) ==
    IF p = "fitRpm" THEN "fitFlow"
    ELSE IF p = "fitFlow" THEN "fitPin"
    ELSE IF p = "fitPin" THEN "stats"
    ELSE "write"

\* C8 (as claimed): a stage whose cleaning leaves zero samples is skipped:
\* the run goes on and the parameter set keeps the values it had.
C8_EmptyResultKeepsDefaults ==
    [][(/\ pc \in FitStages
        /\ \A j \in 1..Len(concat_files(files, Ikey, StageOkey(pc))) :
              LET r == concat_files(files, Ikey, StageOkey(pc))[j]
              IN  ~(Finite(r[1]) /\ Finite(r[2]) /\ r[1].v * Imax.den <= Imax.num))
          => (pc' = StageAfter(pc) /\ flow_params' = flow_params)]_vars

\* C9: when compute has ended, by returning or by an exception, the temporary
\* directory is removed; it exists exactly while the block is being executed.
C9_TempdirRemoved ==
    /\ Terminated => tempdir = "removed"
    /\ (tempdir = "exists") = (pc \notin {"start", "done", "raised"})

\* compute was left by a failing fit and the directory is gone
C9_Witness ==
    /\ pc = "raised"
    /\ err = "curve_fit"
    /\ files # <<>>
    /\ tempdir = "removed"

\* C10 (as claimed): when compute has ended, the working directory of the
\* process is the directory recorded on entry.
C10_WorkingDirectoryRestored ==
    Terminated => procdir = "cwd"

====
